---- MODULE Spec2Model ----
(***************************************************************************)
(* A model of src/app.py: a Streamlit habit / mood tracker over a SQLite   *)
(* file.  The state is the four tables of init_db (habits, habit_logs,     *)
(* mood_logs, ai_messages), SQLite's AUTOINCREMENT bookkeeping             *)
(* (sqlite_sequence) and the wall clock read by dt.datetime.now() and      *)
(* dt.date.today().                                                        *)
(*                                                                         *)
(* Streamlit reruns the whole script on every interaction.  Every section  *)
(* of a run writes nothing when its widgets carry the stored values (or    *)
(* its button is not pressed, or its fetch fails), so a run is modelled as *)
(* the sequence of its sections and each section is one action.            *)
(*                                                                         *)
(* Text: Korean literals of the source are written in ASCII.  A TEXT       *)
(* column that the code may leave NULL holds None or Some(v).              *)
(***************************************************************************)
EXTENDS Integers, Sequences, FiniteSets, TLC

VARIABLES
    habits,            \* table habits: set of rows
    habit_logs,        \* table habit_logs: set of rows
    mood_logs,         \* table mood_logs: set of rows
    ai_messages,       \* table ai_messages: set of rows
    sqlite_sequence,   \* AUTOINCREMENT: table name -> largest rowid ever handed out
    now,               \* the wall clock, in seconds
    writes,            \* handler runs so far (bounds the exploration)
    pc,                \* where the running page_today() stands ("idle": no run)
    view,              \* the locals of that run and what it has shown
    writers,           \* the sessions inside upsert_habit_log
    last_writer,       \* per habit, the call that committed last
    streak,            \* a window of days and the streaks computed over it
    coach              \* the inputs of a coach score and the score

\* The variables of the page run, of the concurrent sessions and of the two
\* calculations.
aux == <<pc, view, writers, last_writer, streak, coach>>

vars == <<habits, habit_logs, mood_logs, ai_messages, sqlite_sequence, now, writes,
          pc, view, writers, last_writer, streak, coach>>

----------------------------------------------------------------------------
(* Bounds of the exploration. *)

MaxClock == 2          \* the clock runs 0 .. MaxClock
TicksPerDay == 2       \* seconds in a day: the date is now \div TicksPerDay
MaxWrites == 2         \* handler runs per behaviour of Spec and SpecStats
MaxTodayWrites == 5    \* steps per behaviour of SpecToday

Dates == 0 .. (MaxClock \div TicksPerDay)
Memos == {"", "m"}
MsgTypes == {"quote", "coach", "insight"}

----------------------------------------------------------------------------
(* Helpers *)

None == <<>>
Some(v) == <<v>>

\* A text typed into a widget: `pad` blanks around `core`.
RawText(pad, core) == [pad |-> pad, core |-> core]

\* str.strip(): the text without its surrounding blanks.
strip(raw) == raw.core

\* iso_today(): the date part of the clock.
iso_today == now \div TicksPerDay

\* pct with a division by zero left in (the guard denom <= 0 dropped and the
\* empty case read as "everything done").
pct_noguard(numer, denom) ==
    IF denom <= 0 THEN 100
    ELSE LET q == (numer * 100) \div denom
             r == (numer * 100) % denom
         IN  IF 2 * r < denom THEN q
             ELSE IF 2 * r > denom THEN q + 1
             ELSE IF q % 2 = 0 THEN q ELSE q + 1

\* pct(numer, denom): int(round(numer / denom * 100)), 0 when denom <= 0.
\* Python's round is round-half-to-even; the exact quotient below agrees with
\* the float computation for every denom < 40.
pct(numer, denom) ==
    IF denom <= 0 THEN 0
    ELSE LET q == (numer * 100) \div denom
             r == (numer * 100) % denom
         IN  IF 2 * r < denom THEN q
             ELSE IF 2 * r > denom THEN q + 1
             ELSE IF q % 2 = 0 THEN q ELSE q + 1

\* clamp without its lower limit: min(hi, x).
clamp_upper_only(x, lo, hi) == IF hi < x THEN hi ELSE x

\* clamp(x, lo, hi): max(lo, min(hi, x)).
clamp(x, lo, hi) ==
    LET m == IF hi < x THEN hi ELSE x
    IN  IF lo > m THEN lo ELSE m

----------------------------------------------------------------------------
(* Table habits *)

\* The `defaults` list of seed_habits_if_empty.
defaults ==
    << [name |-> "water",    category |-> "health", target_value |-> 8,  target_unit |-> "cups"],
       [name |-> "stretch",  category |-> "health", target_value |-> 10, target_unit |-> "minutes"],
       [name |-> "walk",     category |-> "health", target_value |-> 20, target_unit |-> "minutes"],
       [name |-> "meditate", category |-> "mind",   target_value |-> 5,  target_unit |-> "minutes"] >>

\* INSERT INTO habits (...) VALUES (?, ?, ?, ?, 1, ?) with rowid `id`.
HabitRow(id, name, category, target_value, target_unit, t) ==
    [habit_id |-> id, name |-> name, category |-> category,
     target_value |-> target_value, target_unit |-> target_unit,
     is_active |-> 1, created_at |-> t]

\* seed_habits_if_empty(): the four defaults, when the table holds no row.
seed_habits_if_empty(tbl, seq, t) ==
    IF Cardinality(tbl) = 0
    THEN tbl \cup { HabitRow(seq + i, defaults[i].name, defaults[i].category,
                             defaults[i].target_value, defaults[i].target_unit, t)
                    : i \in 1 .. Len(defaults) }
    ELSE tbl

RECURSIVE OrderById(_)
\* ORDER BY habit_id ASC of a set of habit rows.
OrderById(rows) ==
    IF rows = {} THEN << >>
    ELSE LET first == CHOOSE r \in rows : \A s \in rows : r.habit_id <= s.habit_id
         IN  << first >> \o OrderById(rows \ {first})

\* fetch_active_habits() with the is_active filter lost.
fetch_all_as_active(tbl) == OrderById(tbl)

\* fetch_active_habits(): SELECT * FROM habits WHERE is_active=1 ORDER BY habit_id ASC.
fetch_active_habits(tbl) == OrderById({ r \in tbl : r.is_active = 1 })

\* fetch_all_habits(): every row (the order does not matter to the handlers).
fetch_all_habits(tbl) == tbl

----------------------------------------------------------------------------
(* Table habit_logs *)

\* A plain INSERT on a table without the UNIQUE(date, habit_id) constraint.
insert_habit_log(tbl, seq, date, habit_id, is_done, memo, t) ==
    tbl \cup { [log_id |-> seq + 1, date |-> date, habit_id |-> habit_id,
                is_done |-> is_done, memo |-> memo, updated_at |-> t] }

\* The conflict matched on the date alone: every record of the date is
\* overwritten.
upsert_habit_log_by_date(tbl, seq, date, habit_id, is_done, memo, t) ==
    IF \E r \in tbl : r.date = date /\ r.habit_id = habit_id
    THEN { IF r.date = date
           THEN [r EXCEPT !.is_done = is_done, !.memo = memo, !.updated_at = t]
           ELSE r : r \in tbl }
    ELSE tbl \cup { [log_id |-> seq + 1, date |-> date, habit_id |-> habit_id,
                     is_done |-> is_done, memo |-> memo, updated_at |-> t] }

\* The DO UPDATE clause without memo=excluded.memo: an existing record keeps
\* its memo.
upsert_habit_log_done_only(tbl, seq, date, habit_id, is_done, memo, t) ==
    IF \E r \in tbl : r.date = date /\ r.habit_id = habit_id
    THEN { IF r.date = date /\ r.habit_id = habit_id
           THEN [r EXCEPT !.is_done = is_done, !.updated_at = t]
           ELSE r : r \in tbl }
    ELSE tbl \cup { [log_id |-> seq + 1, date |-> date, habit_id |-> habit_id,
                     is_done |-> is_done, memo |-> memo, updated_at |-> t] }

\* INSERT ... ON CONFLICT(date, habit_id) DO NOTHING: the stored row wins.
insert_or_ignore_habit_log(tbl, seq, date, habit_id, is_done, memo, t) ==
    IF \E r \in tbl : r.date = date /\ r.habit_id = habit_id
    THEN tbl
    ELSE tbl \cup { [log_id |-> seq + 1, date |-> date, habit_id |-> habit_id,
                     is_done |-> is_done, memo |-> memo, updated_at |-> t] }

\* upsert_habit_log(date, habit_id, is_done, memo): INSERT ... ON CONFLICT(date,
\* habit_id) DO UPDATE SET is_done, memo, updated_at.  FOREIGN KEY(habit_id) is
\* declared but conn() never turns PRAGMA foreign_keys on, so it is not checked.
upsert_habit_log(tbl, seq, date, habit_id, is_done, memo, t) ==
    IF \E r \in tbl : r.date = date /\ r.habit_id = habit_id
    THEN { IF r.date = date /\ r.habit_id = habit_id
           THEN [r EXCEPT !.is_done = is_done, !.memo = memo, !.updated_at = t]
           ELSE r : r \in tbl }
    ELSE tbl \cup { [log_id |-> seq + 1, date |-> date, habit_id |-> habit_id,
                     is_done |-> is_done, memo |-> memo, updated_at |-> t] }

\* The rowid an INSERT reserves: SQLite advances the AUTOINCREMENT counter for the
\* attempted row even when ON CONFLICT turns the statement into an UPDATE.
next_rowid(seq) == seq + 1

\* fetch_habit_logs_for_date(date): {r["habit_id"]: r for r in rows}.
fetch_habit_logs_for_date(tbl, date) ==
    LET rows == { r \in tbl : r.date = date }
    IN  [ h \in { r.habit_id : r \in rows } |-> CHOOSE r \in rows : r.habit_id = h ]

\* The loop counting every done record of the date, whatever habit it is of.
count_done_logs(hs, logs, i) ==
    Cardinality({ h \in DOMAIN logs : logs[h].is_done = 1 })

RECURSIVE count_done(_, _, _)
\* The loop of habit_completion_rate over habits[i ..].
count_done(hs, logs, i) ==
    IF i > Len(hs) THEN 0
    ELSE ( IF hs[i].habit_id \in DOMAIN logs /\ logs[hs[i].habit_id].is_done = 1
           THEN 1 ELSE 0 )
         + count_done(hs, logs, i + 1)

\* habit_completion_rate(date) = (done, total, rate).
habit_completion_rate(date) ==
    LET hs    == fetch_active_habits(habits)
        logs  == fetch_habit_logs_for_date(habit_logs, date)
        total == Len(hs)
        done  == count_done(hs, logs, 1)
    IN  [done |-> done, total |-> total, rate |-> pct(done, total)]

----------------------------------------------------------------------------
(* Table mood_logs *)

\* INSERT OR REPLACE: the row of the date is deleted and inserted anew, with a
\* new created_at.
replace_mood_log(tbl, payload, t) ==
    { r \in tbl : r.date # payload.date }
    \cup { [date |-> payload.date,
             mood_score |-> payload.mood_score,
             mood_label |-> payload.mood_label,
             keywords |-> payload.keywords,
             note |-> payload.note,
             weather_desc |-> payload.weather_desc,
             weather_temp |-> payload.weather_temp,
             tarot_name |-> payload.tarot_name,
             tarot_orientation |-> payload.tarot_orientation,
             tarot_meaning |-> payload.tarot_meaning,
             ai_analysis |-> payload.ai_analysis,
             ai_recommendation |-> payload.ai_recommendation,
             created_at |-> t,
             updated_at |-> t] }

\* upsert_mood_log(payload): INSERT ... ON CONFLICT(date) DO UPDATE SET every
\* column but date and created_at.  payload.setdefault("created_at", now) only
\* matters on the INSERT path: no caller passes created_at.
upsert_mood_log(tbl, payload, t) ==
    IF \E r \in tbl : r.date = payload.date
    THEN { IF r.date = payload.date
           THEN [r EXCEPT !.mood_score = payload.mood_score,
                          !.mood_label = payload.mood_label,
                          !.keywords = payload.keywords,
                          !.note = payload.note,
                          !.weather_desc = payload.weather_desc,
                          !.weather_temp = payload.weather_temp,
                          !.tarot_name = payload.tarot_name,
                          !.tarot_orientation = payload.tarot_orientation,
                          !.tarot_meaning = payload.tarot_meaning,
                          !.ai_analysis = payload.ai_analysis,
                          !.ai_recommendation = payload.ai_recommendation,
                          !.updated_at = t]
           ELSE r : r \in tbl }
    ELSE tbl \cup { [date |-> payload.date,
                     mood_score |-> payload.mood_score,
                     mood_label |-> payload.mood_label,
                     keywords |-> payload.keywords,
                     note |-> payload.note,
                     weather_desc |-> payload.weather_desc,
                     weather_temp |-> payload.weather_temp,
                     tarot_name |-> payload.tarot_name,
                     tarot_orientation |-> payload.tarot_orientation,
                     tarot_meaning |-> payload.tarot_meaning,
                     ai_analysis |-> payload.ai_analysis,
                     ai_recommendation |-> payload.ai_recommendation,
                     created_at |-> t,
                     updated_at |-> t] }

\* load_mood_log(date): the row of that date as Some(row), or None.
load_mood_log(tbl, date) ==
    IF \E r \in tbl : r.date = date
    THEN Some(CHOOSE r \in tbl : r.date = date)
    ELSE None

----------------------------------------------------------------------------
(* Table ai_messages *)

\* A plain INSERT on a table without the UNIQUE(date, type) constraint.
insert_ai_message(tbl, seq, date, msg_type, content, t) ==
    tbl \cup { [msg_id |-> seq + 1, date |-> date, type |-> msg_type,
                content |-> content, created_at |-> t] }

\* save_ai_message(date, msg_type, content): INSERT ... ON CONFLICT(date, type)
\* DO UPDATE SET content, created_at.
save_ai_message(tbl, seq, date, msg_type, content, t) ==
    IF \E r \in tbl : r.date = date /\ r.type = msg_type
    THEN { IF r.date = date /\ r.type = msg_type
           THEN [r EXCEPT !.content = content, !.created_at = t]
           ELSE r : r \in tbl }
    ELSE tbl \cup { [msg_id |-> seq + 1, date |-> date, type |-> msg_type,
                     content |-> content, created_at |-> t] }

\* load_ai_message(date, msg_type): row["content"] if row else None.
load_ai_message(tbl, date, msg_type) ==
    IF \E r \in tbl : r.date = date /\ r.type = msg_type
    THEN Some((CHOOSE r \in tbl : r.date = date /\ r.type = msg_type).content)
    ELSE None

----------------------------------------------------------------------------
(* Statements of page_settings *)

\* INSERT INTO habits (name, category, target_value, target_unit, is_active,
\* created_at) VALUES (?, ?, ?, ?, 1, ?).
insert_habit(tbl, seq, name, category, target_value, target_unit, t) ==
    tbl \cup { HabitRow(seq + 1, name, category, target_value, target_unit, t) }

\* A hard delete in place of the deactivation: the row goes when the toggle is
\* switched off.
delete_when_inactive(tbl, hid, v) ==
    IF v = 0 THEN { r \in tbl : r.habit_id # hid }
    ELSE { IF r.habit_id = hid THEN [r EXCEPT !.is_active = v] ELSE r : r \in tbl }

\* The UPDATE without its WHERE clause: every habit takes the flag.
update_is_active_all(tbl, hid, v) ==
    { [r EXCEPT !.is_active = v] : r \in tbl }

\* UPDATE habits SET is_active=? WHERE habit_id=?.
update_is_active(tbl, hid, v) ==
    { IF r.habit_id = hid THEN [r EXCEPT !.is_active = v] ELSE r : r \in tbl }

\* UPDATE habits SET name=?, category=?, target_value=?, target_unit=? WHERE habit_id=?.
update_habit(tbl, hid, name, category, target_value, target_unit) ==
    { IF r.habit_id = hid
      THEN [r EXCEPT !.name = name, !.category = category,
                     !.target_value = target_value, !.target_unit = target_unit]
      ELSE r : r \in tbl }

----------------------------------------------------------------------------
(* Inputs of the handlers *)

NameInputs == { RawText(1, ""), RawText(1, "read") }
EditNameInputs == { RawText(0, ""), RawText(1, "run") }
NoteInputs == { RawText(1, "n") }
KeywordInputs == { RawText(0, "") }
MoodScores == {3, 4}
mood_map == [ s \in 1 .. 5 |->
                CASE s = 1 -> "hard" [] s = 2 -> "vague" [] s = 3 -> "normal"
                  [] s = 4 -> "good" [] OTHER -> "best" ]

\* What the weather block of page_today leaves in (weather_desc, weather_temp):
\* ("", None) without a key, on an unknown city or on an error; else the
\* provider's description and temperature.
WeatherOutcomes ==
    { [desc |-> "", temp |-> None], [desc |-> "rain", temp |-> Some(1)] }

\* What zenquotes_today() does: raise, return None, or return a quote.
QuoteOutcomes ==
    { [kind |-> "raise", quote |-> "", author |-> ""],
      [kind |-> "none",  quote |-> "", author |-> ""],
      [kind |-> "ok",    quote |-> "", author |-> "a"],
      [kind |-> "ok",    quote |-> "q1", author |-> "a"],
      [kind |-> "ok",    quote |-> "q2", author |-> ""] }

\* f"<<{quote}>> -- {author}".strip(): the text shown for a quote.
quote_text(q) == [quote |-> q.quote, author |-> q.author]

\* "h_memo_" in st.session_state: the widgets are keyed h_memo_<habit_id>, so
\* the bare prefix is never a key.
h_memo_in_session_state == FALSE

----------------------------------------------------------------------------
(* Streaks and coach score: the calculations of the statistics *)

\* The longest window of days the streaks are computed over.
MaxWindow == 6

RECURSIVE scan_back(_, _)
\* The backward scan from day i: the achieved days met before the first day
\* that is not achieved.
scan_back(days, i) ==
    IF i = 0 THEN 0
    ELSE IF ~days[i] THEN 0
    ELSE 1 + scan_back(days, i - 1)

\* The backward scan that forgives today: a today that is not achieved is
\* skipped and the count starts from yesterday.
current_streak_skip_today(days) ==
    IF days # << >> /\ ~days[Len(days)]
    THEN scan_back(days, Len(days) - 1)
    ELSE scan_back(days, Len(days))

\* Current streak of a window (oldest day first, today last).
current_streak(days) == scan_back(days, Len(days))

RECURSIVE scan_forward_on_reset(_, _, _, _)
\* The forward scan that records the maximum only when a run ends on a day that
\* is not achieved: the run that reaches today is never recorded.
scan_forward_on_reset(days, i, run, best) ==
    IF i > Len(days) THEN best
    ELSE IF days[i] THEN scan_forward_on_reset(days, i + 1, run + 1, best)
    ELSE scan_forward_on_reset(days, i + 1, 0, IF run > best THEN run ELSE best)

best_streak_on_reset(days) == scan_forward_on_reset(days, 1, 0, 0)

RECURSIVE scan_forward(_, _, _, _)
\* The forward scan from day i with the running counter `run` and the maximum
\* `best` so far: the counter is reset to 0 on a day that is not achieved.
scan_forward(days, i, run, best) ==
    IF i > Len(days) THEN best
    ELSE LET r == IF days[i] THEN run + 1 ELSE 0
         IN  scan_forward(days, i + 1, r, IF r > best THEN r ELSE best)

\* Best streak of a window.
best_streak(days) == scan_forward(days, 1, 0, 0)

\* The window after one more day: the most recent MaxWindow days.
next_window(days, ok) ==
    IF Len(days) < MaxWindow THEN Append(days, ok) ELSE Append(Tail(days), ok)

\* The ranges of the three inputs of the coach score.
Rates == 0 .. 100
NoteBonuses == 0 .. 10
Penalties == 0 .. 15

\* Coach score: today's rate plus the note bonus minus the penalty, clamped to
\* [0, 100] after the summation.
coach_score(rate, bonus, penalty) == clamp(rate + bonus - penalty, 0, 100)

----------------------------------------------------------------------------
(* The external calls of page_today and the locals of one run *)

\* A TEXT column read the way Python reads it in `if row["col"]` and
\* `row["col"] or ""`: NULL and the empty text are both false.
truthy(col, empty) == col # None /\ col[1] # empty

\* The exceptions the external calls raise: requests' errors from the request
\* and raise_for_status(), KeyError / IndexError from reading the reply.
Raised == {"HTTPError", "KeyError"}

\* A try block that catches nothing: the exception leaves the page.
except_nothing(exc) == FALSE

\* `except Exception`: does the clause catch the exception?  Every class the
\* external calls raise derives from Exception; the exception st.rerun() raises
\* to restart the script does not.
except_Exception(exc) ==
    exc \in {"HTTPError", "ConnectionError", "Timeout", "KeyError", "IndexError",
             "ValueError"}

\* weather_keywords(desc, temp): the pills shown for the weather.
weather_keywords(desc, temp) ==
    (IF desc = "rain" THEN << "rain" >> ELSE << >>)
    \o (IF temp = None THEN << >>
        ELSE IF temp[1] >= 30 THEN << "hot" >>
        ELSE IF temp[1] <= 2 THEN << "cold" >>
        ELSE << "mild" >>)

\* What the weather block meets: no owm_key in the session, an exception of
\* geocode_city / fetch_weather, an unknown city (geo is None), or a reply.
WeatherCalls ==
    { [kind |-> "nokey",  exc |-> "", desc |-> "", temp |-> None],
      [kind |-> "nocity", exc |-> "", desc |-> "", temp |-> None],
      [kind |-> "ok",     exc |-> "", desc |-> "rain", temp |-> Some(1)] }
    \cup { [kind |-> "raise", exc |-> e, desc |-> "", temp |-> None] : e \in Raised }

\* The tarot provider: an exception of tarot_random_card(), or a card.  A card is
\* the dict of the reply: {} when the reply holds no card.
TarotCalls ==
    { [kind |-> "raise", exc |-> "HTTPError", name |-> None, meaning_up |-> None,
       meaning_rev |-> None],
      [kind |-> "ok", exc |-> "", name |-> None, meaning_up |-> None,
       meaning_rev |-> None],
      [kind |-> "ok", exc |-> "", name |-> Some("Tower"), meaning_up |-> Some("change"),
       meaning_rev |-> Some("fear")] }

\* pick_tarot_with_orientation(): the card with the orientation drawn by
\* random.random() < 0.72.
pick_tarot_with_orientation(card, upright) ==
    LET meaning == IF upright THEN card.meaning_up ELSE card.meaning_rev
    IN  [name        |-> IF card.name = None THEN "Unknown" ELSE card.name[1],
         orientation |-> IF upright THEN "upright" ELSE "reversed",
         meaning     |-> IF truthy(meaning, "") THEN meaning[1] ELSE ""]

\* A text of the model's answer is a sequence of tokens; REC is the marker the
\* page splits it at.
REC == "REC"

\* openai_chat(): an exception (requests, raise_for_status, a reply without
\* choices), or the text of the answer.
OpenAICalls ==
    { [kind |-> "raise", exc |-> "HTTPError", out |-> << >>],
      [kind |-> "raise", exc |-> "KeyError",  out |-> << >>],
      [kind |-> "ok", exc |-> "", out |-> << "a" >>],
      [kind |-> "ok", exc |-> "", out |-> << "a", REC, "r" >>],
      [kind |-> "ok", exc |-> "", out |-> << REC, "r" >>] }

\* txt.split(REC, 1): the tokens before the first marker.
before_marker(txt) ==
    LET i == CHOOSE k \in 1 .. Len(txt) :
                 txt[k] = REC /\ \A j \in 1 .. (k - 1) : txt[j] # REC
    IN  SubSeq(txt, 1, i - 1)

\* REC + parts[1]: the marker and what follows it.
from_marker(txt) ==
    LET i == CHOOSE k \in 1 .. Len(txt) :
                 txt[k] = REC /\ \A j \in 1 .. (k - 1) : txt[j] # REC
    IN  SubSeq(txt, i, Len(txt))

\* The (analysis, recommendation) pair page_today stores for an answer.
split_reading(txt) ==
    LET has      == \E k \in 1 .. Len(txt) : txt[k] = REC
        analysis == IF has THEN before_marker(txt) ELSE txt
        reco     == IF has THEN from_marker(txt) ELSE << >>
    IN  [ai_analysis |-> analysis,
         ai_recommendation |-> IF reco # << >> THEN reco ELSE txt]

\* The reading is generated for any mood log, with or without a card.
reading_ready_without_card(existing) == existing # None

\* The two tests before the call of openai_chat: a mood log exists and it has
\* a tarot card.
reading_ready(existing) ==
    existing # None /\ truthy(existing[1].tarot_name, "")

\* What the user did to start a run: just opened the page, pressed "save the
\* mood diary", changed a checklist widget, pressed "draw a tarot card" or
\* pressed "generate the AI reading".
Events == {"none", "mood", "check", "tarot", "reading"}

\* The locals of a run at its start: the date of line 635, the weather
\* defaults, nothing fetched or shown yet.  quote0 is today's cached quote as
\* the run found it.
fresh_view(ev) ==
    [event |-> ev,
     date |-> iso_today,
     weather_desc |-> "", weather_temp |-> None, w_keywords |-> << >>,
     quote_fetch |-> "",
     quote0 |-> load_ai_message(ai_messages, iso_today, "quote"),
     checklist |-> FALSE,
     quote_card |-> None,
     messages |-> {},
     openai_called |-> FALSE,
     escaped |-> FALSE]

\* The browser sessions that write habit logs, and a session outside
\* upsert_habit_log.
Sessions == {1, 2}
idle_writer ==
    [at |-> "idle", date |-> 0, habit_id |-> 0, is_done |-> 0, memo |-> "", t |-> 0,
     pending |-> {}]

----------------------------------------------------------------------------
(* Init: after main()'s init_db() and seed_habits_if_empty() on a new file *)

Init ==
    /\ now = 0
    /\ habits = seed_habits_if_empty({}, 0, 0)
    /\ habit_logs = {}
    /\ mood_logs = {}
    /\ ai_messages = {}
    /\ sqlite_sequence = [habits |-> Len(defaults), habit_logs |-> 0, ai_messages |-> 0]
    /\ writes = 0
    /\ pc = "idle"
    /\ view = fresh_view("none")
    /\ writers = [s \in Sessions |-> idle_writer]
    /\ last_writer = [h \in {} |-> None]
    /\ streak = [days |-> << >>, current |-> 0, best |-> 0]
    /\ coach = [rate |-> 0, bonus |-> 0, penalty |-> 0, score |-> 0]

----------------------------------------------------------------------------
(* Actions *)

\* Time passes.
Tick ==
    /\ now < MaxClock
    /\ now' = now + 1
    /\ UNCHANGED <<habits, habit_logs, mood_logs, ai_messages, sqlite_sequence>>

\* The quote block caching whatever came back, a missing or empty quote too.
QuoteFetch_save_always(q) ==
    LET save == q.kind # "raise"
    IN  /\ ai_messages' =
              IF save
              THEN save_ai_message(ai_messages, sqlite_sequence.ai_messages,
                                   iso_today, "quote", quote_text(q), now)
              ELSE ai_messages
        /\ sqlite_sequence' =
              IF save
              THEN [sqlite_sequence EXCEPT !.ai_messages = next_rowid(@)]
              ELSE sqlite_sequence
        /\ UNCHANGED <<habits, habit_logs, mood_logs, now>>

\* page_today, "Quote of the day": fetch, and cache the quote when there is one.
QuoteFetch(q) ==
    LET date == iso_today
        save == q.kind = "ok" /\ q.quote # ""
    IN  /\ q.kind \in {"raise", "none", "ok"}
        /\ ai_messages' =
              IF save
              THEN save_ai_message(ai_messages, sqlite_sequence.ai_messages,
                                   date, "quote", quote_text(q), now)
              ELSE ai_messages
        /\ sqlite_sequence' =
              IF save
              THEN [sqlite_sequence EXCEPT !.ai_messages = next_rowid(@)]
              ELSE sqlite_sequence
        /\ UNCHANGED <<habits, habit_logs, mood_logs, now>>

\* page_today, button "save the mood diary".
MoodSave(mood_score, mood_label, keywords_csv, note, w) ==
    LET date == iso_today
        existing == load_mood_log(mood_logs, date)
        keep(f) == IF existing # None THEN existing[1][f] ELSE None
    IN  /\ mood_logs' = upsert_mood_log(mood_logs,
              [date |-> date,
               mood_score |-> mood_score,
               mood_label |-> mood_label,
               keywords |-> strip(keywords_csv),
               note |-> strip(note),
               weather_desc |-> w.desc,
               weather_temp |-> w.temp,
               tarot_name |-> keep("tarot_name"),
               tarot_orientation |-> keep("tarot_orientation"),
               tarot_meaning |-> keep("tarot_meaning"),
               ai_analysis |-> keep("ai_analysis"),
               ai_recommendation |-> keep("ai_recommendation")], now)
        /\ UNCHANGED <<habits, habit_logs, ai_messages, sqlite_sequence, now>>

\* page_today, one row of the habit checklist: the body of `for h in habits`
\* for the active habit hid, with the toggle at new_done and the memo input at
\* new_memo.
ChecklistRow(hid, new_done, new_memo) ==
    LET hs      == fetch_active_habits(habits)
        date    == iso_today
        logs    == fetch_habit_logs_for_date(habit_logs, date)
        has     == hid \in DOMAIN logs
        is_done == IF has THEN logs[hid].is_done # 0 ELSE FALSE
        memo    == IF has THEN logs[hid].memo ELSE ""
        val     == IF new_done THEN 1 ELSE 0
        first   == (new_done # is_done) \/ (new_memo # memo)
        second  == (new_done # is_done) /\ ~h_memo_in_session_state
        seq0    == sqlite_sequence.habit_logs
        tbl1    == IF first
                   THEN upsert_habit_log(habit_logs, seq0, date, hid, val, new_memo, now)
                   ELSE habit_logs
        seq1    == IF first THEN next_rowid(seq0) ELSE seq0
        tbl2    == IF second
                   THEN upsert_habit_log(tbl1, seq1, date, hid, val, memo, now)
                   ELSE tbl1
        seq2    == IF second THEN next_rowid(seq1) ELSE seq1
    IN  /\ \E i \in 1 .. Len(hs) : hs[i].habit_id = hid
        /\ habit_logs' = tbl2
        /\ sqlite_sequence' = [sqlite_sequence EXCEPT !.habit_logs = seq2]
        /\ UNCHANGED <<habits, mood_logs, ai_messages, now>>

\* page_settings, button "add": a habit with a non-blank name is inserted.
SettingsAdd(name, target_value, target_unit, category) ==
    /\ strip(name) # ""
    /\ habits' = insert_habit(habits, sqlite_sequence.habits, strip(name),
                              strip(category), target_value, target_unit, now)
    /\ sqlite_sequence' = [sqlite_sequence EXCEPT !.habits = next_rowid(@)]
    /\ UNCHANGED <<habit_logs, mood_logs, ai_messages, now>>

\* page_settings, the "active" toggle of one habit row.
SettingsToggle(hid, new_active) ==
    /\ \E h \in fetch_all_habits(habits) :
          /\ h.habit_id = hid
          /\ (h.is_active # 0) # new_active
    /\ habits' = update_is_active(habits, hid, IF new_active THEN 1 ELSE 0)
    /\ UNCHANGED <<habit_logs, mood_logs, ai_messages, sqlite_sequence, now>>

\* page_settings, the edit form of one habit row, submitted with "save".
SettingsEdit(hid, nn, nc, ntv, ntu) ==
    /\ \E h \in fetch_all_habits(habits) : h.habit_id = hid
    /\ strip(nn) # ""
    /\ habits' = update_habit(habits, hid, strip(nn), strip(nc), ntv, ntu)
    /\ UNCHANGED <<habit_logs, mood_logs, ai_messages, sqlite_sequence, now>>

HabitIds == { h.habit_id : h \in habits }

\* The settings page and the habit checklist.  Every handler run counts
\* against MaxWrites; time passes freely.
Next ==
    \/ Tick /\ UNCHANGED <<writes, aux>>
    \/ \E hid \in HabitIds, new_active \in BOOLEAN :
          /\ writes < MaxWrites /\ writes' = writes + 1 /\ UNCHANGED aux
          /\ SettingsToggle(hid, new_active)
    \/ \E hid \in HabitIds, new_done \in BOOLEAN, new_memo \in Memos :
          /\ writes < MaxWrites /\ writes' = writes + 1 /\ UNCHANGED aux
          /\ ChecklistRow(hid, new_done, new_memo)
    \/ \E name \in NameInputs :
          /\ writes < MaxWrites /\ writes' = writes + 1 /\ UNCHANGED aux
          /\ SettingsAdd(name, 20, "minutes", RawText(0, "etc"))
    \/ \E hid \in HabitIds, nn \in EditNameInputs :
          /\ writes < MaxWrites /\ writes' = writes + 1 /\ UNCHANGED aux
          /\ SettingsEdit(hid, nn, RawText(0, "etc"), 20, "minutes")

Spec == Init /\ [][Next]_vars

\* The habits switched on and off at will, the rest of the settings page and
\* the checklist with its memo inputs left empty.
NextStats ==
    \/ Tick /\ UNCHANGED <<writes, aux>>
    \/ \E hid \in HabitIds, new_active \in BOOLEAN :
          SettingsToggle(hid, new_active) /\ UNCHANGED <<writes, aux>>
    \/ \E hid \in HabitIds, new_done \in BOOLEAN :
          /\ writes < MaxWrites /\ writes' = writes + 1 /\ UNCHANGED aux
          /\ ChecklistRow(hid, new_done, "")
    \/ \E name \in NameInputs :
          /\ writes < MaxWrites /\ writes' = writes + 1 /\ UNCHANGED aux
          /\ SettingsAdd(name, 20, "minutes", RawText(0, "etc"))
    \/ \E hid \in HabitIds, nn \in EditNameInputs :
          /\ writes < MaxWrites /\ writes' = writes + 1 /\ UNCHANGED aux
          /\ SettingsEdit(hid, nn, RawText(0, "etc"), 20, "minutes")

SpecStats == Init /\ [][NextStats]_vars

\* The "today" page: quote, mood diary and checklist.
NextToday ==
    \/ /\ writes < MaxTodayWrites /\ writes' = writes + 1 /\ UNCHANGED aux
       /\ Tick
    \/ \E hid \in HabitIds, new_done \in BOOLEAN :
          /\ writes < MaxTodayWrites /\ writes' = writes + 1 /\ UNCHANGED aux
          /\ ChecklistRow(hid, new_done, "")
    \/ \E q \in QuoteOutcomes :
          /\ writes < MaxTodayWrites /\ writes' = writes + 1 /\ UNCHANGED aux
          /\ QuoteFetch(q)
    \/ \E s \in MoodScores, k \in KeywordInputs, n \in NoteInputs, w \in WeatherOutcomes :
          /\ writes < MaxTodayWrites /\ writes' = writes + 1 /\ UNCHANGED aux
          /\ MoodSave(s, mood_map[s], k, n, w)

SpecToday == Init /\ [][NextToday]_vars

----------------------------------------------------------------------------
(* Properties of the log store *)

\* The arguments the store functions are tried on: every date of the run, the
\* ids of the habits and one id that no habit has, both flags, every memo.
ArgHabitIds == 1 .. (sqlite_sequence.habits + 1)
ArgDone == {0, 1}
LaterTimes == { t \in now .. (now + 1) : t <= MaxClock }

HasLog(tbl, date, hid) == \E r \in tbl : r.date = date /\ r.habit_id = hid
LogOf(tbl, date, hid) == CHOOSE r \in tbl : r.date = date /\ r.habit_id = hid

\* A habit_logs table without the updated_at column.
WithoutUpdatedAt(tbl) ==
    { [log_id |-> r.log_id, date |-> r.date, habit_id |-> r.habit_id,
       is_done |-> r.is_done, memo |-> r.memo] : r \in tbl }

\* C1: habit_logs holds at most one record per (date, habit_id), and an
\* upsert_habit_log on a key that has a record keeps the number of records and
\* leaves that record (same log_id) with the is_done and memo of the call.
C1_OneLogPerKey ==
    /\ \A r1, r2 \in habit_logs :
          (r1.date = r2.date /\ r1.habit_id = r2.habit_id) => r1 = r2
    /\ \A d \in Dates, h \in ArgHabitIds, x \in ArgDone, m \in Memos :
          LET after == upsert_habit_log(habit_logs, sqlite_sequence.habit_logs,
                                        d, h, x, m, now)
          IN  /\ Cardinality({ r \in after : r.date = d /\ r.habit_id = h }) = 1
              /\ HasLog(habit_logs, d, h) =>
                    /\ Cardinality(after) = Cardinality(habit_logs)
                    /\ LogOf(after, d, h).log_id = LogOf(habit_logs, d, h).log_id
                    /\ LogOf(after, d, h).is_done = x
                    /\ LogOf(after, d, h).memo = m

\* C1 witness: two upserts were issued and the table holds one record.
C1_Witness ==
    /\ sqlite_sequence.habit_logs >= 2
    /\ Cardinality(habit_logs) = 1

\* C2 as stated: upsert_habit_log called again with the arguments that wrote a
\* record leaves the store exactly as the first call left it.
C2_SameStateAfterRepeat ==
    \A r \in habit_logs :
        upsert_habit_log(habit_logs, sqlite_sequence.habit_logs,
                         r.date, r.habit_id, r.is_done, r.memo, now) = habit_logs

\* C2 amended: the repeated call leaves the same records (same keys, log_id,
\* is_done, memo) as the first; only the updated_at of the written record moves
\* to the time of the repeated call, so the tables are equal when both calls
\* read the same clock second.
C2_SameRecordsAfterRepeat ==
    \A d \in Dates, h \in ArgHabitIds, x \in ArgDone, m \in Memos, t2 \in LaterTimes :
        LET seq   == sqlite_sequence.habit_logs
            once  == upsert_habit_log(habit_logs, seq, d, h, x, m, now)
            twice == upsert_habit_log(once, next_rowid(seq), d, h, x, m, t2)
        IN  /\ WithoutUpdatedAt(twice) = WithoutUpdatedAt(once)
            /\ { r \in twice : ~(r.date = d /\ r.habit_id = h) }
                 = { r \in once : ~(r.date = d /\ r.habit_id = h) }
            /\ LogOf(twice, d, h).updated_at = t2
            /\ (t2 = now => twice = once)

\* C2 witness: a record written by two upserts in an earlier second, so that a
\* repeated call now would move its updated_at.
C2_Witness ==
    /\ sqlite_sequence.habit_logs >= 2
    /\ \E r \in habit_logs : r.updated_at < now /\ r.date = iso_today

\* C3: after upsert_habit_log(date, habit_id, is_done, memo),
\* fetch_habit_logs_for_date(date) maps habit_id to a record with exactly that
\* is_done and memo, whether or not the key had a record.
C3_RoundTrip ==
    \A d \in Dates, h \in ArgHabitIds, x \in ArgDone, m \in Memos :
        LET after == upsert_habit_log(habit_logs, sqlite_sequence.habit_logs,
                                      d, h, x, m, now)
            logs  == fetch_habit_logs_for_date(after, d)
        IN  /\ h \in DOMAIN logs
            /\ logs[h].is_done = x
            /\ logs[h].memo = m

\* C3 witness: the checklist has overwritten a record: a done habit with a memo,
\* read back by fetch_habit_logs_for_date.
C3_Witness ==
    \E r \in habit_logs :
        /\ r.is_done = 1 /\ r.memo = "m"
        /\ fetch_habit_logs_for_date(habit_logs, r.date)[r.habit_id] = r

----------------------------------------------------------------------------
(* Properties of the statistics *)

ActiveHabits == { h \in habits : h.is_active = 1 }
DoneOn(date) ==
    { h \in ActiveHabits :
        \E r \in habit_logs : r.date = date /\ r.habit_id = h.habit_id /\ r.is_done = 1 }
Abs(n) == IF n < 0 THEN -n ELSE n

\* A day is achieved at threshold T iff it has an active habit and its rate is
\* at least T.
achieved(date, T) ==
    LET res == habit_completion_rate(date)
    IN  res.total > 0 /\ res.rate >= T

\* C5: habit_completion_rate(date) returns total = the number of active habits,
\* done = the number of active habits with a record of that date with is_done =
\* 1, and, when total > 0, rate = the integer nearest to 100 * done / total; two
\* active habits with one done give (1, 2, 50).
C5_TodayStats ==
    \A d \in Dates :
        LET res == habit_completion_rate(d)
        IN  /\ res.total = Cardinality(ActiveHabits)
            /\ res.done = Cardinality(DoneOn(d))
            /\ res.total > 0 => 2 * Abs(res.rate * res.total - 100 * res.done) <= res.total
            /\ (Cardinality(ActiveHabits) = 2 /\ Cardinality(DoneOn(d)) = 1)
                  => res = [done |-> 1, total |-> 2, rate |-> 50]

\* C5 witness: two active habits, one done today and one not, a deactivated
\* habit with a done record of today, and the result (1, 2, 50).
C5_Witness ==
    /\ Cardinality(ActiveHabits) = 2
    /\ Cardinality(DoneOn(iso_today)) = 1
    /\ \E h \in habits \ ActiveHabits :
          \E r \in habit_logs :
              r.date = iso_today /\ r.habit_id = h.habit_id /\ r.is_done = 1
    /\ habit_completion_rate(iso_today) = [done |-> 1, total |-> 2, rate |-> 50]

\* C6: for every date, 0 <= done <= total and 0 <= rate <= 100.
C6_RateInRange ==
    \A d \in Dates :
        LET res == habit_completion_rate(d)
        IN  /\ 0 <= res.done /\ res.done <= res.total
            /\ 0 <= res.rate /\ res.rate <= 100

\* C6 witness: every active habit is done today and a deactivated habit has a
\* done record today as well.
C6_Witness ==
    /\ ActiveHabits # {}
    /\ DoneOn(iso_today) = ActiveHabits
    /\ \E h \in habits \ ActiveHabits :
          \E r \in habit_logs :
              r.date = iso_today /\ r.habit_id = h.habit_id /\ r.is_done = 1

\* C7: on a date with no active habit the rate is 0 and the day is achieved for
\* no threshold, 0 included.
C7_EmptyDayNotAchieved ==
    \A d \in Dates :
        habit_completion_rate(d).total = 0 =>
            /\ habit_completion_rate(d).rate = 0
            /\ \A T \in 0 .. 100 : ~achieved(d, T)

\* C7 witness: no habit is active and a done record exists for today.
C7_Witness ==
    /\ ActiveHabits = {}
    /\ \E r \in habit_logs : r.date = iso_today /\ r.is_done = 1
    /\ habit_completion_rate(iso_today).rate = 0

\* C8: every habit_logs record has the habit_id of a row of habits.
C8_LogsReferenceHabits ==
    \A r \in habit_logs : \E h \in habits : h.habit_id = r.habit_id

\* C8 witness: a record of a habit that was added in the settings page.
C8_Witness ==
    \E r \in habit_logs :
        /\ r.habit_id > Len(defaults)
        /\ \E h \in habits : h.habit_id = r.habit_id /\ h.created_at <= r.updated_at

\* C9: no step removes a habit row, so the set of habit ids only grows; a step
\* that switches a habit's is_active changes nothing else of that row, no other
\* habit and no habit_logs record, and switching it on puts the habit back
\* among the active habits with its records.
C9_NoHardDelete ==
    [][ /\ HabitIds \subseteq HabitIds'
        /\ \A h \in habits : \A h2 \in habits' :
              (h2.habit_id = h.habit_id /\ h2.is_active # h.is_active) =>
                  /\ habits' = (habits \ {h}) \cup { [h EXCEPT !.is_active = h2.is_active] }
                  /\ habit_logs' = habit_logs
                  /\ h2.is_active \in {0, 1}
                  /\ h2.is_active = 1 =>
                        \E i \in 1 .. Len(fetch_active_habits(habits')) :
                            fetch_active_habits(habits')[i] = h2
                  /\ h2.is_active = 0 =>
                        \A i \in 1 .. Len(fetch_active_habits(habits')) :
                            fetch_active_habits(habits')[i].habit_id # h.habit_id
      ]_vars

\* C9 witness: a deactivated habit that still has the record written for it
\* earlier.
C9_Witness ==
    \E h \in habits :
        /\ h.is_active = 0
        /\ \E r \in habit_logs : r.habit_id = h.habit_id /\ r.updated_at < now

----------------------------------------------------------------------------
(* Properties of the "today" page *)

\* C4: a step that changes habit_logs changes the record of one (date, habit)
\* only, and no habit row, mood log or cached message.
C4_UpsertFrame ==
    [][ habit_logs' # habit_logs =>
          /\ habits' = habits
          /\ mood_logs' = mood_logs
          /\ ai_messages' = ai_messages
          /\ \E hid \in HabitIds :
                { r \in habit_logs' : ~(r.date = iso_today /\ r.habit_id = hid) }
                  = { r \in habit_logs : ~(r.date = iso_today /\ r.habit_id = hid) }
      ]_vars

\* C4 witness: a record written now beside an older record of another habit of
\* the same date, with a mood log and a cached message in the store.
C4_Witness ==
    /\ mood_logs # {}
    /\ ai_messages # {}
    /\ \E r1, r2 \in habit_logs :
          /\ r1.date = iso_today /\ r2.date = iso_today
          /\ r1.habit_id # r2.habit_id
          /\ r1.updated_at = now /\ r2.updated_at < now

Contents == { quote_text(q) : q \in { o \in QuoteOutcomes : o.kind = "ok" } }

\* C10: ai_messages holds at most one row per (date, type); save_ai_message on
\* an existing key keeps the number of rows; load_ai_message after a save
\* returns the saved content and is unchanged for every other key; it returns
\* None for a key without a row, and for every key while nothing was saved.
C10_OneMessagePerKey ==
    /\ \A r1, r2 \in ai_messages :
          (r1.date = r2.date /\ r1.type = r2.type) => r1 = r2
    /\ sqlite_sequence.ai_messages = 0 =>
          \A d \in Dates, ty \in MsgTypes : load_ai_message(ai_messages, d, ty) = None
    /\ \A d \in Dates, ty \in MsgTypes :
          /\ (~\E r \in ai_messages : r.date = d /\ r.type = ty)
                => load_ai_message(ai_messages, d, ty) = None
          /\ \A c \in Contents :
                LET after == save_ai_message(ai_messages, sqlite_sequence.ai_messages,
                                             d, ty, c, now)
                IN  /\ load_ai_message(after, d, ty) = Some(c)
                    /\ Cardinality({ r \in after : r.date = d /\ r.type = ty }) = 1
                    /\ (\E r \in ai_messages : r.date = d /\ r.type = ty)
                          => Cardinality(after) = Cardinality(ai_messages)
                    /\ \A d2 \in Dates, ty2 \in MsgTypes :
                          (d2 # d \/ ty2 # ty) =>
                              load_ai_message(after, d2, ty2)
                                = load_ai_message(ai_messages, d2, ty2)

\* C10 witness: today's quote was saved twice and the one row holds the second
\* content.
C10_Witness ==
    /\ sqlite_sequence.ai_messages >= 2
    /\ Cardinality(ai_messages) = 1
    /\ \E r \in ai_messages : r.msg_id = 1 /\ r.created_at > 0
    /\ load_ai_message(ai_messages, iso_today, "quote")
         = Some([quote |-> "q2", author |-> ""])

----------------------------------------------------------------------------
(* One run of page_today, section by section *)

db == <<habits, habit_logs, mood_logs, ai_messages, sqlite_sequence, now>>
beside_run == <<writers, last_writer, streak, coach>>

\* An exception that no handler caught leaves page_today: the run ends there.
escape ==
    /\ pc' = "idle"
    /\ view' = [view EXCEPT !.escaped = TRUE]

\* st.rerun(): the run is abandoned and the script starts again, no widget
\* touched.
rerun ==
    /\ pc' = "weather"
    /\ view' = fresh_view("none")'

\* The user does something and Streamlit runs the script: line 635.
RunStart(ev) ==
    /\ pc = "idle"
    /\ pc' = "weather"
    /\ view' = fresh_view(ev)
    /\ UNCHANGED db

\* Lines 654-669: the weather block.
RunWeather(c) ==
    /\ pc = "weather"
    /\ IF c.kind = "raise" /\ ~except_Exception(c.exc)
       THEN escape
       ELSE /\ pc' = "quote"
            /\ view' = [view EXCEPT !.weather_desc = c.desc,
                                    !.weather_temp = c.temp,
                                    !.w_keywords = IF c.kind = "ok"
                                                   THEN weather_keywords(c.desc, c.temp)
                                                   ELSE << >>]
    /\ UNCHANGED db

\* Lines 671-678: the quote of the day.
RunQuote(q) ==
    /\ pc = "quote"
    /\ IF q.kind = "raise" /\ ~except_Exception("HTTPError")
       THEN escape /\ UNCHANGED db
       ELSE /\ QuoteFetch(q)
            /\ pc' = "mood"
            /\ view' = [view EXCEPT !.quote_fetch =
                            IF q.kind = "ok" /\ q.quote = "" THEN "empty" ELSE q.kind]

\* Lines 684-713: the mood diary card and its save button.
RunMood(mood_score, keywords_csv, note) ==
    /\ pc = "mood"
    /\ IF view.event = "mood"
       THEN /\ MoodSave(mood_score, mood_map[mood_score], keywords_csv, note,
                        [desc |-> view.weather_desc, temp |-> view.weather_temp])
            /\ rerun
       ELSE /\ pc' = "checklist"
            /\ UNCHANGED <<view, db>>

\* Lines 726-755: the habit checklist; the user has touched the widgets of at
\* most one row.
RunChecklist(hid, new_done, new_memo) ==
    /\ pc = "checklist"
    /\ IF view.event = "check" /\ Len(fetch_active_habits(habits)) > 0
       THEN ChecklistRow(hid, new_done, new_memo)
       ELSE UNCHANGED db
    /\ pc' = "quote_card"
    /\ view' = [view EXCEPT !.checklist = TRUE]

\* Lines 758-766: the quote card shows the cached quote, or "not loaded".
RunQuoteCard ==
    /\ pc = "quote_card"
    /\ pc' = "tarot"
    /\ view' = [view EXCEPT !.quote_card =
                    Some(load_ai_message(ai_messages, view.date, "quote"))]
    /\ UNCHANGED db

\* Lines 772-798: the tarot button.
RunTarot(c, upright) ==
    LET existing == load_mood_log(mood_logs, view.date)
        t        == pick_tarot_with_orientation(c, upright)
        base     == [date |-> view.date,
                     mood_score |-> IF existing # None THEN existing[1].mood_score ELSE 3,
                     mood_label |-> IF existing # None THEN existing[1].mood_label
                                    ELSE mood_map[3],
                     keywords |-> IF existing # None THEN existing[1].keywords ELSE "",
                     note |-> IF existing # None THEN existing[1].note ELSE "",
                     weather_desc |-> view.weather_desc,
                     weather_temp |-> view.weather_temp,
                     tarot_name |-> Some(t.name),
                     tarot_orientation |-> Some(t.orientation),
                     tarot_meaning |-> Some(t.meaning),
                     ai_analysis |-> IF existing # None THEN existing[1].ai_analysis
                                     ELSE None,
                     ai_recommendation |-> IF existing # None
                                           THEN existing[1].ai_recommendation ELSE None]
    IN  /\ pc = "tarot"
        /\ IF view.event # "tarot"
           THEN /\ pc' = "reading"
                /\ UNCHANGED <<view, db>>
           ELSE IF c.kind = "raise"
           THEN /\ IF except_Exception(c.exc)
                   THEN /\ pc' = "reading"
                        /\ view' = [view EXCEPT !.messages = @ \cup {"tarot_failed"}]
                   ELSE escape
                /\ UNCHANGED db
           ELSE /\ mood_logs' = upsert_mood_log(mood_logs, base, now)
                /\ UNCHANGED <<habits, habit_logs, ai_messages, sqlite_sequence, now>>
                /\ rerun

\* Lines 811-886: the AI reading button (enabled: the session holds a key).
RunReading(o) ==
    LET existing == load_mood_log(mood_logs, view.date)
        parts    == split_reading(o.out)
    IN  /\ pc = "reading"
        /\ IF view.event # "reading"
           THEN /\ pc' = "show"
                /\ UNCHANGED <<view, db>>
           ELSE IF ~reading_ready(existing)
           THEN /\ pc' = "show"
                /\ view' = [view EXCEPT !.messages =
                                @ \cup {IF existing = None THEN "save_mood_first"
                                        ELSE "draw_tarot_first"}]
                /\ UNCHANGED db
           ELSE IF o.kind = "raise"
           THEN /\ IF except_Exception(o.exc)
                   THEN /\ pc' = "show"
                        /\ view' = [view EXCEPT !.messages = @ \cup {"ai_failed"},
                                                !.openai_called = TRUE]
                   ELSE escape
                /\ UNCHANGED db
           ELSE /\ mood_logs' = upsert_mood_log(mood_logs,
                       [existing[1] EXCEPT !.ai_analysis = Some(parts.ai_analysis),
                                           !.ai_recommendation = Some(parts.ai_recommendation)],
                       now)
                /\ UNCHANGED <<habits, habit_logs, ai_messages, sqlite_sequence, now>>
                /\ rerun

\* Lines 888-900: the saved reading is shown and the run ends; its locals are
\* gone.
RunShow ==
    /\ pc = "show"
    /\ pc' = "idle"
    /\ view' = fresh_view("none")
    /\ UNCHANGED db

\* The most user actions in a behaviour of SpecRun, and how far its clock runs.
MaxRuns == 3
MaxRunClock == 1

\* The quote provider during the runs: it fails, has no quote, or has the one
\* quote of the day.
RunQuotes == { q \in QuoteOutcomes : q.quote \in {"", "q1"} /\ q.author \in {"", "a"} }

\* The "today" page run after run.  The clock moves between the runs, from
\* the first run on (the time before it only shifts every timestamp); the
\* user moves the mood slider to 4, touches the first habit's row, and the
\* tarot cards come upright.
NextRun ==
    \/ pc = "idle" /\ writes > 0 /\ now < MaxRunClock /\ Tick /\ UNCHANGED <<writes, aux>>
    \/ \E ev \in Events :
          /\ writes < MaxRuns /\ writes' = writes + 1
          /\ RunStart(ev) /\ UNCHANGED beside_run
    \/ \E c \in WeatherCalls : RunWeather(c) /\ UNCHANGED <<writes, beside_run>>
    \/ \E q \in RunQuotes : RunQuote(q) /\ UNCHANGED <<writes, beside_run>>
    \/ \E k \in KeywordInputs, n \in NoteInputs :
          RunMood(4, k, n) /\ UNCHANGED <<writes, beside_run>>
    \/ \E new_done \in BOOLEAN :
          RunChecklist(1, new_done, "") /\ UNCHANGED <<writes, beside_run>>
    \/ RunQuoteCard /\ UNCHANGED <<writes, beside_run>>
    \/ \E c \in TarotCalls :
          RunTarot(c, TRUE) /\ UNCHANGED <<writes, beside_run>>
    \/ \E o \in OpenAICalls : RunReading(o) /\ UNCHANGED <<writes, beside_run>>
    \/ RunShow /\ UNCHANGED <<writes, beside_run>>

SpecRun == Init /\ [][NextRun]_vars

----------------------------------------------------------------------------
(* Properties of the page run *)

\* Today's mood log of the run, as Some(row) or None.
TodayLog == load_mood_log(mood_logs, view.date)

C12_ErrorsCaught ==
    [][ /\ ~view'.escaped
        /\ pc = "weather" =>
              \A c \in WeatherCalls :
                  (c.kind = "raise" /\ RunWeather(c)) =>
                      /\ pc' = "quote"
                      /\ view'.w_keywords = << >>
                      /\ view'.weather_desc = "" /\ view'.weather_temp = None
        /\ pc = "quote" =>
              \A q \in RunQuotes :
                  (q.kind = "raise" /\ RunQuote(q)) =>
                      /\ pc' = "mood"
                      /\ ai_messages' = ai_messages
        /\ (pc = "tarot" /\ view.event = "tarot") =>
              \A c \in TarotCalls :
                  (c.kind = "raise" /\ RunTarot(c, TRUE)) =>
                      /\ pc' = "reading"
                      /\ "tarot_failed" \in view'.messages
        /\ (pc = "reading" /\ view.event = "reading" /\ reading_ready(TodayLog)) =>
              \A o \in OpenAICalls :
                  (o.kind = "raise" /\ RunReading(o)) =>
                      /\ pc' = "show"
                      /\ "ai_failed" \in view'.messages
        /\ pc' \in {"tarot", "reading", "show"} =>
              /\ view'.checklist
              /\ view'.quote_card = Some(load_ai_message(ai_messages', view'.date, "quote"))
      ]_vars

\* C12 witness: a run in which the quote fetch and the tarot draw raised has
\* rendered the checklist, shown "not loaded" and the tarot error, and reached
\* its last section.
C12_Witness ==
    /\ pc = "show"
    /\ view.quote_fetch = "raise"
    /\ view.w_keywords = << >>
    /\ view.checklist
    /\ view.quote_card = Some(None)
    /\ "tarot_failed" \in view.messages
    /\ ~view.escaped

----------------------------------------------------------------------------
(* Two sessions inside upsert_habit_log *)

beside_race == <<pc, view, streak, coach>>

\* The session that holds SQLite's write lock: it has executed its statement
\* and not yet committed.
lock_holders == { s \in Sessions : writers[s].at = "executed" }

\* Line 301: upsert_habit_log is entered and reads the clock.
WriterCall(s, habit_id, is_done, memo) ==
    /\ writers[s].at = "idle"
    /\ writers' = [writers EXCEPT ![s] =
                      [at |-> "called", date |-> iso_today, habit_id |-> habit_id,
                       is_done |-> is_done, memo |-> memo, t |-> now, pending |-> {}]]
    /\ UNCHANGED <<db, last_writer>>

\* Lines 302-314, c.execute: the statement runs in the session's transaction.
\* SQLite lets one connection write at a time, so the statement runs when no
\* other session is between its statement and its commit.
WriterExecute(s) ==
    /\ writers[s].at = "called"
    /\ lock_holders = {}
    /\ writers' = [writers EXCEPT ![s].at = "executed",
                                  ![s].pending =
                                      upsert_habit_log(habit_logs, sqlite_sequence.habit_logs,
                                                       writers[s].date, writers[s].habit_id,
                                                       writers[s].is_done, writers[s].memo,
                                                       writers[s].t)]
    /\ UNCHANGED <<db, last_writer>>

\* The lock stays taken for longer than sqlite3's timeout: c.execute raises
\* OperationalError and the call writes nothing.
WriterBusy(s) ==
    /\ writers[s].at = "called"
    /\ lock_holders # {}
    /\ writers' = [writers EXCEPT ![s] = idle_writer]
    /\ UNCHANGED <<db, last_writer>>

\* The end of `with conn() as c`: the transaction commits.
WriterCommit(s) ==
    /\ writers[s].at = "executed"
    /\ habit_logs' = writers[s].pending
    /\ sqlite_sequence' = [sqlite_sequence EXCEPT !.habit_logs = next_rowid(@)]
    /\ last_writer' =
          (<<writers[s].date, writers[s].habit_id>> :>
              [session |-> s, is_done |-> writers[s].is_done, memo |-> writers[s].memo])
          @@ last_writer
    /\ writers' = [writers EXCEPT ![s] = idle_writer]
    /\ UNCHANGED <<habits, mood_logs, ai_messages, now>>

\* The most calls of upsert_habit_log in a behaviour of SpecRace.
MaxCalls == 3

\* Two sessions writing the records of the first two habits.
NextRace ==
    \/ \E s \in Sessions, hid \in {1, 2}, x \in {0, 1}, m \in Memos :
          /\ writes < MaxCalls /\ writes' = writes + 1
          /\ WriterCall(s, hid, x, m) /\ UNCHANGED beside_race
    \/ \E s \in Sessions : WriterExecute(s) /\ UNCHANGED <<writes, beside_race>>
    \/ \E s \in Sessions : WriterBusy(s) /\ UNCHANGED <<writes, beside_race>>
    \/ \E s \in Sessions : WriterCommit(s) /\ UNCHANGED <<writes, beside_race>>

SpecRace == Init /\ [][NextRace]_vars

\* C13: whatever the interleaving of the sessions, the table holds exactly one
\* record for every key that was written, and its (is_done, memo) pair is the
\* pair of the call that committed last on that key, both fields from the same
\* call; a key no call committed has no record.
C13_LastWriterWins ==
    /\ \A k \in DOMAIN last_writer :
          /\ Cardinality({ r \in habit_logs : r.date = k[1] /\ r.habit_id = k[2] }) = 1
          /\ LogOf(habit_logs, k[1], k[2]).is_done = last_writer[k].is_done
          /\ LogOf(habit_logs, k[1], k[2]).memo = last_writer[k].memo
    /\ \A r \in habit_logs : <<r.date, r.habit_id>> \in DOMAIN last_writer
    /\ Cardinality(lock_holders) <= 1

\* C13 witness: session 1 committed last on a record that session 2 wrote
\* first, while session 2 is inside another call on the same key with the
\* opposite flag and another memo.
C13_Witness ==
    \E k \in DOMAIN last_writer :
        /\ last_writer[k].session = 1
        /\ sqlite_sequence.habit_logs >= 2
        /\ Cardinality(habit_logs) = 1
        /\ LogOf(habit_logs, k[1], k[2]).is_done = 1
        /\ LogOf(habit_logs, k[1], k[2]).memo = "m"
        /\ writers[2].at = "called"
        /\ <<writers[2].date, writers[2].habit_id>> = k
        /\ writers[2].is_done = 0 /\ writers[2].memo = ""

----------------------------------------------------------------------------
(* The calculations: streaks over a window, and the coach score *)

beside_calc == <<pc, view, writers, last_writer>>

\* A day ends, achieved or not, and the streaks are computed over the window.
NewDay(ok) ==
    LET days == next_window(streak.days, ok)
    IN  /\ streak' = [days |-> days,
                      current |-> current_streak(days),
                      best |-> best_streak(days)]
        /\ UNCHANGED <<db, coach>>

\* The days a behaviour of SpecStreak goes through.
MaxDays == 7

NextStreak ==
    \E ok \in BOOLEAN :
        /\ writes < MaxDays /\ writes' = writes + 1
        /\ NewDay(ok) /\ UNCHANGED beside_calc

SpecStreak == Init /\ [][NextStreak]_vars

\* The coach score of one combination of inputs.
CoachScore(rate, bonus, penalty) ==
    /\ coach' = [rate |-> rate, bonus |-> bonus, penalty |-> penalty,
                 score |-> coach_score(rate, bonus, penalty)]
    /\ UNCHANGED <<db, streak>>

\* One score is computed in a behaviour, for any combination of the inputs.
NextCoach ==
    /\ writes = 0
    /\ \E rate \in Rates, bonus \in NoteBonuses, penalty \in Penalties :
          /\ writes' = writes + 1
          /\ CoachScore(rate, bonus, penalty) /\ UNCHANGED beside_calc

SpecCoach == Init /\ [][NextCoach]_vars

\* The days i .. j of a window are all achieved.
AllAchieved(days, i, j) == \A k \in i .. j : days[k]

\* C14: over every window, of every length up to MaxWindow, the current
\* streak (backward scan from today) is at most the length of the window and
\* the best streak (forward scan) is at least the current streak.
C14_StreakBounds ==
    /\ streak.current = current_streak(streak.days)
    /\ streak.best = best_streak(streak.days)
    /\ 0 <= streak.current
    /\ streak.current <= Len(streak.days)
    /\ streak.best >= streak.current
    /\ streak.best <= Len(streak.days)

\* C14 witness: a full window whose run up to today is shorter than an
\* earlier run.
C14_Witness ==
    /\ Len(streak.days) = MaxWindow
    /\ streak.current >= 1
    /\ streak.best > streak.current

\* C15: the current streak is the length of the longest all-achieved suffix of
\* the window (0 when today is not achieved), the best streak is the length
\* of the longest all-achieved stretch of days anywhere in the window, and the
\* two scenarios give (2, 2) and (1, 3).
C15_StreakValues ==
    LET days == streak.days
        n    == Len(days)
    IN  /\ AllAchieved(days, n - streak.current + 1, n)
        /\ (streak.current < n => ~days[n - streak.current])
        /\ (n > 0 /\ ~days[n] => streak.current = 0)
        /\ \A i \in 1 .. n : \A j \in i .. n :
              AllAchieved(days, i, j) => j - i + 1 <= streak.best
        /\ (streak.best > 0 =>
              \E i \in 1 .. n : AllAchieved(days, i, i + streak.best - 1)
                                   /\ i + streak.best - 1 <= n)
        /\ (n = 0 => streak.best = 0)
        /\ (days = << TRUE, TRUE, FALSE, TRUE, TRUE >> =>
              streak.current = 2 /\ streak.best = 2)
        /\ (days = << TRUE, TRUE, TRUE, FALSE, TRUE >> =>
              streak.best = 3 /\ streak.current = 1)

\* C15 witness: the window of the second scenario with its streaks.
C15_Witness ==
    /\ streak.days = << TRUE, TRUE, TRUE, FALSE, TRUE >>
    /\ streak.current = 1
    /\ streak.best = 3

\* C16: the coach score of every rate in 0 .. 100, note bonus in 0 .. 10 and
\* penalty in 0 .. 15 is in 0 .. 100, and it is the sum itself when the sum is
\* in that range.
C16_CoachScoreInRange ==
    LET sum == coach.rate + coach.bonus - coach.penalty
    IN  /\ coach.score = coach_score(coach.rate, coach.bonus, coach.penalty)
        /\ 0 <= coach.score /\ coach.score <= 100
        /\ (0 <= sum /\ sum <= 100) => coach.score = sum
        /\ sum < 0 => coach.score = 0
        /\ sum > 100 => coach.score = 100

\* C16 witness: a sum below 0 that the clamp raised to 0.
C16_Witness ==
    /\ coach.rate = 5 /\ coach.bonus = 0 /\ coach.penalty = 15
    /\ coach.score = 0

----------------------------------------------------------------------------
(* The statistics of earlier days *)

\* habit_completion_rate(date) over given tables: the result the function
\* returns when the store holds these habits and these logs.
habit_completion_rate_over(habits_tbl, logs_tbl, date) ==
    LET hs    == fetch_active_habits(habits_tbl)
        logs  == fetch_habit_logs_for_date(logs_tbl, date)
        total == Len(hs)
        done  == count_done(hs, logs, 1)
    IN  [done |-> done, total |-> total, rate |-> pct(done, total)]

\* C17: habit_completion_rate(d) counts, for every date d, past ones too, the
\* habits that are active now.  A step that switches a habit off (on) while
\* no habit_logs record changes lowers (raises) the total of every date by
\* one, and the done count of every date on which that habit has a done
\* record, so the rate reported for an earlier day changes; a step that adds
\* a habit raises the total of every date by one.
C17_RateOverCurrentHabits ==
    [][ (habit_logs' = habit_logs /\ habits' # habits) =>
          LET off == { h.habit_id : h \in { x \in habits : x.is_active = 1 /\
                         \E h2 \in habits' : h2.habit_id = x.habit_id /\ h2.is_active = 0 } }
              on  == { h2.habit_id : h2 \in { x \in habits' : x.is_active = 1 /\
                         ~\E h \in habits : h.habit_id = x.habit_id /\ h.is_active = 1 } }
          IN  \A d \in Dates :
                \A before \in { habit_completion_rate(d) },
                   after \in { habit_completion_rate_over(habits', habit_logs', d) },
                   done_ids \in { { r.habit_id : r \in { x \in habit_logs :
                                                           x.date = d /\ x.is_done = 1 } } } :
                    /\ after.total = before.total - Cardinality(off) + Cardinality(on)
                    /\ after.done = before.done - Cardinality(off \cap done_ids)
                                                 + Cardinality(on \cap done_ids)
                    /\ after.rate = pct(after.done, after.total)
      ]_vars

\* C17 witness: yesterday's only done record is of a habit that has been
\* switched off since, so yesterday's rate is now 0 of three habits.
C17_Witness ==
    /\ iso_today = 1
    /\ \E r \in habit_logs :
          /\ r.date = 0 /\ r.is_done = 1
          /\ \E h \in habits : h.habit_id = r.habit_id /\ h.is_active = 0
    /\ habit_completion_rate(0) = [done |-> 0, total |-> 3, rate |-> 0]

----------------------------------------------------------------------------
(* The habit checklist *)

\* C18: a run of the checklist row of an active habit whose toggle or memo
\* input differs from the stored record leaves the record of (today, habit)
\* with is_done equal to the toggle and memo equal to the memo input; a run in
\* which neither differs issues no upsert and leaves the table, updated_at
\* included, as it was.
C18_ChecklistStoresInputs ==
    [][ \A hid \in HabitIds, new_done \in BOOLEAN, new_memo \in Memos :
          ChecklistRow(hid, new_done, new_memo) =>
              LET stored  == HasLog(habit_logs, iso_today, hid)
                  is_done == stored /\ LogOf(habit_logs, iso_today, hid).is_done # 0
                  memo    == IF stored THEN LogOf(habit_logs, iso_today, hid).memo ELSE ""
              IN  IF new_done # is_done \/ new_memo # memo
                  THEN /\ HasLog(habit_logs', iso_today, hid)
                       /\ LogOf(habit_logs', iso_today, hid).is_done
                             = (IF new_done THEN 1 ELSE 0)
                       /\ LogOf(habit_logs', iso_today, hid).memo = new_memo
                  ELSE /\ habit_logs' = habit_logs
                       /\ sqlite_sequence' = sqlite_sequence
      ]_vars

----------------------------------------------------------------------------
(* The reading workflow and the mood log *)

\* A mood log holds an AI reading.
HasReading(r) == truthy(r.ai_analysis, << >>) \/ truthy(r.ai_recommendation, << >>)

C20_MoodLogFrame ==
    [][ /\ \A r1, r2 \in mood_logs' : r1.date = r2.date => r1 = r2
        /\ (pc \in {"mood", "tarot"} /\ mood_logs' # mood_logs /\ TodayLog # None) =>
              LET old == TodayLog[1]
                  new == load_mood_log(mood_logs', view.date)[1]
              IN  /\ Cardinality(mood_logs') = Cardinality(mood_logs)
                  /\ mood_logs' \ {new} = mood_logs \ {old}
                  /\ new.created_at = old.created_at
                  /\ new.ai_analysis = old.ai_analysis
                  /\ new.ai_recommendation = old.ai_recommendation
                  /\ pc = "mood" =>
                        /\ new.tarot_name = old.tarot_name
                        /\ new.tarot_orientation = old.tarot_orientation
                        /\ new.tarot_meaning = old.tarot_meaning
                  /\ pc = "tarot" =>
                        /\ new.mood_score = old.mood_score
                        /\ new.mood_label = old.mood_label
                        /\ new.keywords = old.keywords
                        /\ new.note = old.note
      ]_vars

\* C20 witness: today's log was created by the diary save or by a draw and
\* rewritten later by the other: it holds the saved mood and the drawn card,
\* and its created_at is older than its updated_at.
C20_Witness ==
    /\ Cardinality(mood_logs) = 1
    /\ TodayLog # None
    /\ TodayLog[1].mood_score = 4 /\ TodayLog[1].note = "n"
    /\ TodayLog[1].tarot_name = Some("Tower")
    /\ TodayLog[1].tarot_orientation = Some("upright")
    /\ TodayLog[1].created_at < TodayLog[1].updated_at

====
